---- MODULE Spec2Model ----
(***************************************************************************)
(* Event capacity and registration consistency of the kidevent server:    *)
(* the register handler of server/routes.ts with its storage calls as     *)
(* separate steps (every await is a point where other requests run), the  *)
(* administrative event operations, and the status derivation of          *)
(* shared/schema.ts.  Time is counted in whole hours.                     *)
(***************************************************************************)
EXTENDS Integers, FiniteSets, Sequences, TLC

\* ---------------------------------------------------------------- bounds
MaxSeats == 2
MaxTime == 3
NumReqs == 2

\* ------------------------------------------------------------- constants
\* the first seeded event starts two hours after server start
SeedStartHours == 2
\* the seeded events close registration twelve hours before their start
SeedCutoffHours == 12
\* the first seeded event costs three credits
SeedCreditsRequired == 3
\* the test watcher starts no run within two seconds of the start of the last
MemoryLimit == 90
DebounceSeconds == 2
\* and runs the tests one second after a change
TimerSeconds == 1

None == "none"

ReqIds == 1..NumReqs
EventIds == {"e1", "e2"}
UserIds == {"u1", "s1", "a1"}
ChildIds == {"c1", "c2"}

\* users.role of the three accounts of the model
userRole == [u \in UserIds |-> CASE u = "u1" -> "user"
                                 [] u = "s1" -> "staff"
                                 [] u = "a1" -> "admin"]

\* attendee.parentId of the two children of the model
childParent == [c \in ChildIds |-> IF c = "c1" THEN "u1" ELSE "a1"]

\* a child id that names no row of the attendee table
MissingChild == "c0"

\* the ids the attendee table gives to the rows POST /api/children inserts
NewChildIds == {"c3", "c4"}

\* the ids the users table gives to the accounts of the signup requests, in the
\* order of the requests
SignupIds == <<"n1", "n2", "n3", "n4">>
AllUserIds == UserIds \cup {SignupIds[r] : r \in ReqIds}

\* the default admin account of storage.seedAdminUser
AdminEmail == "admin@righthereapp.com"
\* the addresses signups are sent for
SignupEmails == {AdminEmail, "new@example.com"}

\* the account that issues the administrative requests
AdminId == "a1"

EventStatus == {"open", "registration_closed", "full", "past", "editing"}
\* the status column is a varchar and the status handler stores the body's value
\* as it is: the five statuses and some other text
StoredStatus == EventStatus \cup {"archived"}
AllowedRegistrants == {"attendee", "user", "both"}
\* the column is a varchar and the update handler stores the body's value as it
\* is: the three modes, the empty string and some other text
StoredRegistrants == AllowedRegistrants \cup {"", "closed"}
CutoffChoices == {0, SeedCutoffHours}
\* the cutoffs an admin edit chooses from: one that falls between server start and
\* the start of the seeded event besides
EditCutoffChoices == CutoffChoices \cup {1}

\* a price is counted in thousandths of the currency unit: 10000 is 10.00.
\* The extra service of the first seeded event: Food at 10
SeedExtraServices == <<10000>>
\* the lists of extra services an event is priced with: the seeded one, one with
\* services at 10.00 and 5.00, one with a service at 1.006
ServiceChoices == {SeedExtraServices, <<10000, 5000>>, <<10000, 1006>>}
\* the selectedServices of a request: indices counted from 0, also one that names
\* no service and one listed twice
SelectionChoices == {<<>>, <<0, 1>>, <<1, 7>>, <<0, 0>>}

\* a time zone: at hour `at` the local clocks are moved by `shift` hours
\* (1 forward, -1 back, 0 never)
NoShift == [at |-> 0, shift |-> 0]
\* the zones of the servers: no clock change, or one change at the first or second
\* hour after server start
ZoneChoices == {NoShift} \cup {[at |-> a, shift |-> d] : a \in {1, 2}, d \in {-1, 1}}

VARIABLES
    events,         \* events table: EventIds -> row (exists = FALSE: no row)
    registrations,  \* event_registrations table: set of rows
    now,            \* the clock, in hours
    reqs,           \* the register requests: ReqIds -> handler position and locals
    creating,       \* event whose create handler has not yet auto-registered, or None
    baseline,       \* per event: remainingSeats as created, or -1 once an admin edited it
    zone,           \* the server's time zone: the hour its clocks change and by how much
    children,       \* attendee table: ChildIds -> parentId
    editor,         \* the admin client's edit modal: position, event and form values
    users,          \* users table: id -> row
    roleRes,        \* the response to the last role update, or None
    childReq,       \* the request that creates a child: handler position and response
    signups,        \* the signup requests: ReqIds -> handler position, email and response
    watcher,        \* the test watcher: its flags, its timer and its clock, in seconds
    probe           \* the health endpoints: the state of the checks and the last answers

vars == <<events, registrations, now, reqs, creating, baseline, zone, children, editor,
          users, roleRes, childReq, signups, watcher, probe>>

\* the state the event handlers leave alone: the accounts, the requests on them,
\* the test watcher and the health endpoints
accountState == <<users, roleRes, childReq, signups, watcher, probe>>

\* the state of the events, their registrations and the requests on them
eventState == <<events, registrations, now, reqs, creating, baseline, zone, editor>>

NoEvent == [exists |-> FALSE, startTime |-> 0, cutoffHours |-> 0, maxSeats |-> 0,
            remainingSeats |-> 0, status |-> "open", deleted |-> FALSE,
            allowedRegistrants |-> "attendee", creditsRequired |-> 0,
            extraServices |-> <<>>]

\* creditsRequired and extraServices are those of the event row the handler fetched
IdleReq == [pc |-> "idle", userId |-> None, eventId |-> None, childId |-> None,
            result |-> None, seatApplied |-> FALSE, selectedServices |-> <<>>,
            creditsRequired |-> 0, extraServices |-> <<>>]

\* no row of the users table
NoUser == [exists |-> FALSE, role |-> None, firstName |-> None, lastName |-> None,
           email |-> None, phone |-> None]

\* the users table after start-up: the three accounts with complete profiles
SeedUsers ==
    [u \in AllUserIds |->
        IF u \in UserIds
        THEN [exists |-> TRUE, role |-> userRole[u], firstName |-> "First",
              lastName |-> "Last", phone |-> "5550100000",
              email |-> IF u = "a1" THEN AdminEmail ELSE u]
        ELSE NoUser]

\* no request for a new child is running
IdleChildReq == [pc |-> "idle", userId |-> None, bodyValid |-> TRUE, result |-> None]

\* a signup request that has not arrived
IdleSignup == [pc |-> "idle", email |-> None, result |-> None]

\* watch-tests.js at load: no run yet, no timer, and the clock, Date.now(), far
\* beyond the two seconds of the debounce; timeout is the second the timer is set
\* for while pending holds, runs counts the jest processes in progress and dirty
\* marks a change that no test run has started after
WatcherStart == [ready |-> FALSE, isRunning |-> FALSE, lastRunTime |-> 0, pending |-> FALSE,
                 timeout |-> 0, clock |-> DebounceSeconds, runs |-> 0, dirty |-> FALSE]

\* the health endpoints before any request: the database answers, the heap is
\* half used, and neither endpoint has answered
ProbeStart == [databaseUp |-> TRUE, heapPercent |-> 50, readiness |-> None,
               health |-> [code |-> 0, checks |-> <<>>]]

\* the edit modal is not shown
ClosedEditor == [pc |-> "closed", eventId |-> None, action |-> None, maxSeats |-> 0,
                 remainingSeats |-> 0, cutoffHours |-> 0, allowedRegistrants |-> None]

\* a finished request keeps its response only
Finished(req, res) == [IdleReq EXCEPT !.pc = "done", !.result = res,
                                      !.seatApplied = req.seatApplied]

\* ------------------------------------------------------- pure functions

\* calculateEventStatus with the capacity check moved in front of the date check
calculateEventStatus_m(event, t) ==
    LET eventDate == event.startTime
        cutoffTime == eventDate - event.cutoffHours
    IN  IF event.remainingSeats <= 0 THEN "full"
        ELSE IF eventDate < t THEN "past"
        ELSE IF t > cutoffTime THEN "registration_closed"
        ELSE "open"

\* calculateEventStatus with the cutoff check moved in front of the capacity check
calculateEventStatus_full(event, t) ==
    LET eventDate == event.startTime
        cutoffTime == eventDate - event.cutoffHours
    IN  IF eventDate < t THEN "past"
        ELSE IF t > cutoffTime THEN "registration_closed"
        ELSE IF event.remainingSeats <= 0 THEN "full"
        ELSE "open"

\* calculateEventStatus that closes registration at the cutoff instant already
calculateEventStatus_cutoff(event, t) ==
    LET eventDate == event.startTime
        cutoffTime == eventDate - event.cutoffHours
    IN  IF eventDate < t THEN "past"
        ELSE IF event.remainingSeats <= 0 THEN "full"
        ELSE IF t >= cutoffTime THEN "registration_closed"
        ELSE "open"

\* shared/schema.ts calculateEventStatus: the stored status is not consulted
calculateEventStatus(event, t) ==
    LET eventDate == event.startTime
        cutoffTime == eventDate - event.cutoffHours
    IN  IF eventDate < t THEN "past"
        ELSE IF event.remainingSeats <= 0 THEN "full"
        ELSE IF t > cutoffTime THEN "registration_closed"
        ELSE "open"

\* Date.prototype.getHours: the hour of t on the server's local clock, counted
\* from the same origin as t
getHours(t) == IF zone.shift # 0 /\ t >= zone.at THEN t + zone.shift ELSE t

\* Date.prototype.setHours: the instant at which the local clock shows hour w.
\* An hour the clock skips is read with the offset in force before the change,
\* an hour the clock shows twice is its first occurrence
setHours(w) ==
    IF zone.shift = 1 THEN (IF w <= zone.at THEN w ELSE w - 1)
    ELSE IF zone.shift = -1 THEN (IF w < zone.at THEN w ELSE w + 1)
    ELSE w

\* storage.getEvent: lookup by id only, the deleted flag is not part of the query
getEvent(id) == IF id \in EventIds /\ events[id].exists THEN events[id] ELSE NoEvent

\* validateEvent with the cutoff check moved in front of the seat check
validateEvent_m(event, t, childId) ==
    LET cutoffTime == setHours(getHours(event.startTime) - event.cutoffHours)
        isChildRegistration == childId # None
        isParentRegistration == childId = None
        allowedRegistrants == IF event.allowedRegistrants = "" THEN "attendee"
                              ELSE event.allowedRegistrants
    IN  IF ~event.exists THEN "404 Event not found"
        ELSE IF t > cutoffTime THEN "400 Registration deadline has passed"
        ELSE IF event.remainingSeats <= 0 THEN "400 No seats available"
        ELSE IF allowedRegistrants = "attendee" /\ isParentRegistration
             THEN "400 only open to children"
        ELSE IF allowedRegistrants = "user" /\ isChildRegistration
             THEN "400 only open to parents"
        ELSE "ok"

\* routes.ts register handler, the checks made on the fetched event before the
\* next storage call: the response of the first failing check, or "ok"
validateEvent(event, t, childId) ==
    LET cutoffTime == setHours(getHours(event.startTime) - event.cutoffHours)
        isChildRegistration == childId # None
        isParentRegistration == childId = None
        allowedRegistrants == IF event.allowedRegistrants = "" THEN "attendee"
                              ELSE event.allowedRegistrants
    IN  IF ~event.exists THEN "404 Event not found"
        ELSE IF event.remainingSeats <= 0 THEN "400 No seats available"
        ELSE IF t > cutoffTime THEN "400 Registration deadline has passed"
        ELSE IF allowedRegistrants = "attendee" /\ isParentRegistration
             THEN "400 only open to children"
        ELSE IF allowedRegistrants = "user" /\ isChildRegistration
             THEN "400 only open to parents"
        ELSE "ok"

\* storage.isChildRegisteredForEvent
isChildRegisteredForEvent(childId, eventId) ==
    \E reg \in registrations : reg.childId = childId /\ reg.eventId = eventId

\* routes.ts register handler, parent branch: getEventRegistrationsByParent(userId)
\* .some(reg => reg.eventId === eventId && reg.childId === null)
isParentAlreadyRegistered(userId, eventId) ==
    \E reg \in registrations :
        reg.parentId = userId /\ reg.eventId = eventId /\ reg.childId = None

\* consumesSeat without the exemption of admin and staff
consumesSeat_m(childId, role) == TRUE

\* routes.ts register handler: does the accepted registration take a seat
consumesSeat(childId, role) ==
    IF childId # None THEN TRUE
    ELSE role # "admin" /\ role # "staff"

\* updateEventSeats that stops at zero seats
updateEventSeats_m(evts, eventId, seatsChange) ==
    [evts EXCEPT ![eventId].remainingSeats = IF @ + seatsChange < 0 THEN 0 ELSE @ + seatsChange]

\* storage.updateEventSeats: remainingSeats = remainingSeats + seatsChange, one statement
updateEventSeats(evts, eventId, seatsChange) ==
    [evts EXCEPT ![eventId].remainingSeats = @ + seatsChange]

\* priceInCents that cuts the fraction of a cent off
priceInCents_m(price) == price \div 10

\* Math.round(service.price * 100): the price in cents, halves rounded up
priceInCents(price) == (price + 5) \div 10

\* routes.ts register handler: the reduce over req.body.selectedServices; an
\* index (counted from 0) without a service adds nothing
RECURSIVE servicesCostOf(_, _)
servicesCostOf(selectedServices, extraServices) ==
    IF selectedServices = <<>> THEN 0
    ELSE LET serviceIndex == Head(selectedServices)
             price == IF serviceIndex + 1 \in DOMAIN extraServices
                      THEN priceInCents(extraServices[serviceIndex + 1])
                      ELSE 0
         IN  price + servicesCostOf(Tail(selectedServices), extraServices)

\* storage.createEventRegistration: insert of one row; id names the inserting request
createEventRegistration(regs, id, eventId, parentId, childId, creditsCost, servicesCost) ==
    regs \cup {[id |-> id, eventId |-> eventId, parentId |-> parentId, childId |-> childId,
                creditsCost |-> creditsCost, servicesCost |-> servicesCost]}

\* getAllEvents that returns the deleted rows whether asked to or not
getAllEvents_m(includeDeleted) ==
    {[id |-> e, status |-> calculateEventStatus(events[e], now), deleted |-> events[e].deleted] :
        e \in {x \in EventIds : events[x].exists}}

\* storage.getAllEvents: the rows, deleted ones only on request, each with its
\* status replaced by the calculated one
getAllEvents(includeDeleted) ==
    {[id |-> e, status |-> calculateEventStatus(events[e], now), deleted |-> events[e].deleted] :
        e \in {x \in EventIds : events[x].exists /\ (includeDeleted \/ ~events[x].deleted)}}

\* storage.getAllEventsForAdmin
getAllEventsForAdmin == getAllEvents(TRUE)

\* storage.getEventsForUser, the listing of GET /api/events
getEventsForUser ==
    {event \in getAllEvents(FALSE) : event.status # "past" /\ event.status # "editing"}

\* ----------------------------------------------------------------- Init

\* the state after start-up: one event as the seed leaves it, with some seats
\* taken, in a server of one of the zones, with one of the cutoffs and one of the
\* lists of extra services
InitWith(zones, cutoffs, services) ==
    /\ \E rs \in 0..MaxSeats, ch \in cutoffs, ar \in AllowedRegistrants, xs \in services :
          events = [e \in EventIds |->
                      IF e = "e1"
                      THEN [exists |-> TRUE, startTime |-> SeedStartHours,
                            cutoffHours |-> ch, maxSeats |-> MaxSeats,
                            remainingSeats |-> rs, status |-> "open",
                            deleted |-> FALSE, allowedRegistrants |-> ar,
                            creditsRequired |-> SeedCreditsRequired,
                            extraServices |-> xs]
                      ELSE NoEvent]
    /\ registrations = {}
    /\ now = 0
    /\ reqs = [r \in ReqIds |-> IdleReq]
    /\ creating = None
    /\ baseline = [e \in EventIds |-> events[e].remainingSeats]
    /\ zone \in zones
    /\ children = [c \in ChildIds \cup NewChildIds |->
                      IF c \in ChildIds THEN childParent[c] ELSE None]
    /\ editor = ClosedEditor
    /\ users = SeedUsers
    /\ roleRes = None
    /\ childReq = IdleChildReq
    /\ signups = [r \in ReqIds |-> IdleSignup]
    /\ watcher = WatcherStart
    /\ probe = ProbeStart

\* a server whose local clock never changes, the seeded extra service
Init == InitWith({NoShift}, CutoffChoices, {SeedExtraServices})

\* -------------------------------------- POST /api/events/:eventId/register

\* parse of the request, storage.getEvent and the checks on the fetched event;
\* requests are numbered in their order of arrival
RegisterGetEventWith(r, userId, eventId, childId, selectedServices) ==
    /\ reqs[r].pc = "idle"
    /\ \A q \in ReqIds : q < r => reqs[q].pc # "idle"
    /\ LET event == getEvent(eventId)
           res == validateEvent(event, now, childId)
       IN  reqs' = [reqs EXCEPT ![r] =
                      IF res = "ok"
                      THEN [@ EXCEPT !.pc = "checkRegistered", !.userId = userId,
                                     !.eventId = eventId, !.childId = childId,
                                     !.selectedServices = selectedServices,
                                     !.creditsRequired = event.creditsRequired,
                                     !.extraServices = event.extraServices]
                      ELSE Finished(@, res)]
    /\ UNCHANGED <<events, registrations, now, creating, baseline, zone, children, editor, accountState>>

\* the same request with no extra service selected
RegisterGetEvent(r, userId, eventId, childId) ==
    RegisterGetEventWith(r, userId, eventId, childId, <<>>)

\* the uniqueness query of the child branch or of the parent branch
RegisterCheckRegistered(r) ==
    /\ reqs[r].pc = "checkRegistered"
    /\ LET q == reqs[r]
       IN  reqs' = [reqs EXCEPT ![r] =
                      IF q.childId # None
                      THEN IF isChildRegisteredForEvent(q.childId, q.eventId)
                           THEN Finished(@, "400 Child is already registered")
                           ELSE [@ EXCEPT !.pc = "getChild"]
                      ELSE IF isParentAlreadyRegistered(q.userId, q.eventId)
                           THEN Finished(@, "400 You are already registered")
                           ELSE [@ EXCEPT !.pc = "create"]]
    /\ UNCHANGED <<events, registrations, now, creating, baseline, zone, children, editor, accountState>>

\* storage.getChild and the ownership check
RegisterGetChild(r) ==
    /\ reqs[r].pc = "getChild"
    /\ LET q == reqs[r]
       IN  reqs' = [reqs EXCEPT ![r] =
                      IF q.childId \notin ChildIds \/ children[q.childId] # q.userId
                      THEN Finished(@, "404 Child not found")
                      ELSE [@ EXCEPT !.pc = "create"]]
    /\ UNCHANGED <<events, registrations, now, creating, baseline, zone, children, editor, accountState>>

\* storage.createEventRegistration, then the choice of the seat update
RegisterCreate(r) ==
    /\ reqs[r].pc = "create"
    /\ LET q == reqs[r]
           creditsCost == q.creditsRequired
           servicesCost == servicesCostOf(q.selectedServices, q.extraServices)
       IN  /\ registrations' = createEventRegistration(registrations, r, q.eventId,
                                                       q.userId, q.childId,
                                                       creditsCost, servicesCost)
           /\ reqs' = [reqs EXCEPT ![r] =
                         IF consumesSeat(q.childId, userRole[q.userId])
                         THEN [@ EXCEPT !.pc = "updateSeats"]
                         ELSE Finished(@, "201")]
    /\ UNCHANGED <<events, now, creating, baseline, zone, children, editor, accountState>>

\* storage.updateEventSeats(eventId, -1) and the 201 response
RegisterUpdateSeats(r) ==
    /\ reqs[r].pc = "updateSeats"
    /\ events' = updateEventSeats(events, reqs[r].eventId, -1)
    /\ reqs' = [reqs EXCEPT ![r] = Finished([@ EXCEPT !.seatApplied = TRUE], "201")]
    /\ UNCHANGED <<registrations, now, creating, baseline, zone, children, editor, accountState>>

\* a storage call of the handler throws: the catch block answers 500, nothing is undone
RegisterStorageFailure(r) ==
    /\ reqs[r].pc \in {"checkRegistered", "getChild", "create", "updateSeats"}
    /\ reqs' = [reqs EXCEPT ![r] = Finished(@, "500")]
    /\ UNCHANGED <<events, registrations, now, creating, baseline, zone, children, editor, accountState>>

\* ------------------------------------------------------ admin operations

\* POST /api/admin/events: storage.createEvent, status forced to "open"; the body's
\* startTime is taken SeedStartHours ahead, its credits and services as the seeds do
AdminCreateEvent(e, maxSeats, remainingSeats, cutoffHours, allowed, selfStaff) ==
    /\ creating = None
    /\ ~events[e].exists
    /\ events' = [events EXCEPT ![e] =
                    [exists |-> TRUE, startTime |-> now + SeedStartHours,
                     cutoffHours |-> cutoffHours, maxSeats |-> maxSeats,
                     remainingSeats |-> remainingSeats, status |-> "open",
                     deleted |-> FALSE, allowedRegistrants |-> allowed,
                     creditsRequired |-> SeedCreditsRequired,
                     extraServices |-> SeedExtraServices]]
    /\ baseline' = [baseline EXCEPT ![e] = remainingSeats]
    /\ creating' = IF selfStaff THEN e ELSE None
    /\ UNCHANGED <<registrations, now, reqs, zone, children, editor, accountState>>

\* the auto-registration taking a seat as the registration of a parent does
AdminAutoRegister_m ==
    /\ creating # None
    /\ registrations' = createEventRegistration(registrations, 0, creating, AdminId, None, 0, 0)
    /\ events' = updateEventSeats(events, creating, -1)
    /\ creating' = None
    /\ UNCHANGED <<now, reqs, baseline, zone, children, editor, accountState>>

\* POST /api/admin/events: the auto-registration of the admin, no seat change
AdminAutoRegister ==
    /\ creating # None
    /\ registrations' = createEventRegistration(registrations, 0, creating, AdminId, None, 0, 0)
    /\ creating' = None
    /\ UNCHANGED <<events, now, reqs, baseline, zone, children, editor, accountState>>

\* POST /api/admin/events: the auto-registration throws and is only logged
AdminAutoRegisterFails ==
    /\ creating # None
    /\ creating' = None
    /\ UNCHANGED <<events, registrations, now, reqs, baseline, zone, children, editor, accountState>>

\* storage.updateEvent: the fields of the body are written, the others kept
updateEvent(evts, e, maxSeats, remainingSeats, cutoffHours, allowed) ==
    [evts EXCEPT ![e].maxSeats = maxSeats,
                 ![e].remainingSeats = remainingSeats,
                 ![e].cutoffHours = cutoffHours,
                 ![e].allowedRegistrants = allowed]

\* storage.updateEventStatus: the status column is set to the value given
updateEventStatus(evts, e, status) == [evts EXCEPT ![e].status = status]

\* PUT /api/admin/events/:id: storage.updateEvent with the fields of the body
AdminUpdateEvent(e, maxSeats, remainingSeats, cutoffHours, allowed) ==
    /\ events[e].exists
    /\ events' = updateEvent(events, e, maxSeats, remainingSeats, cutoffHours, allowed)
    /\ baseline' = [baseline EXCEPT ![e] = -1]
    /\ UNCHANGED <<registrations, now, reqs, creating, zone, children, editor, accountState>>

\* PUT /api/admin/events/:id/status: storage.updateEventStatus
AdminUpdateEventStatus(e, status) ==
    /\ events[e].exists
    /\ events' = updateEventStatus(events, e, status)
    /\ UNCHANGED <<registrations, now, reqs, creating, baseline, zone, children, editor, accountState>>

\* softDeleteEvent that removes the registrations of the event with it
softDeleteEvent_m(e) ==
    /\ events[e].exists
    /\ events' = [events EXCEPT ![e].deleted = TRUE]
    /\ registrations' = {reg \in registrations : reg.eventId # e}
    /\ UNCHANGED <<now, reqs, creating, baseline, zone, children, editor, accountState>>

\* DELETE /api/admin/events/:id: storage.softDeleteEvent
softDeleteEvent(e) ==
    /\ events[e].exists
    /\ events' = [events EXCEPT ![e].deleted = TRUE]
    /\ UNCHANGED <<registrations, now, reqs, creating, baseline, zone, children, editor, accountState>>

\* PUT /api/admin/events/:id/restore: storage.restoreEvent
restoreEvent(e) ==
    /\ events[e].exists
    /\ events' = [events EXCEPT ![e].deleted = FALSE]
    /\ UNCHANGED <<registrations, now, reqs, creating, baseline, zone, children, editor, accountState>>

\* ------------------------------------------- the admin client's edit modal

\* admin-event-management.tsx handleEditEvent: the status request, then the modal
\* opens on the event with the form filled from it
handleEditEvent(e) ==
    /\ editor.pc = "closed"
    /\ events[e].exists
    /\ events' = updateEventStatus(events, e, "editing")
    /\ editor' = [pc |-> "open", eventId |-> e, action |-> None,
                  maxSeats |-> events[e].maxSeats,
                  remainingSeats |-> events[e].remainingSeats,
                  cutoffHours |-> events[e].cutoffHours,
                  allowedRegistrants |-> events[e].allowedRegistrants]
    /\ UNCHANGED <<registrations, now, reqs, creating, baseline, zone, children, accountState>>

\* the admin changes the seat fields of the form
EditForm(maxSeats, remainingSeats) ==
    /\ editor.pc = "open"
    /\ editor' = [editor EXCEPT !.maxSeats = maxSeats, !.remainingSeats = remainingSeats]
    /\ editor' # editor
    /\ UNCHANGED <<events, registrations, now, reqs, creating, baseline, zone, children, accountState>>

\* newStatus that publishes whatever the action
newStatus_m(action) == "open"

\* edit-event-modal.tsx: the status sent after the event data
newStatus(action) == IF action = "publish" THEN "open" ELSE "editing"

\* edit-event-modal.tsx updateEventMutation, publish or save: the first request,
\* PUT /api/admin/events/:id with the values of the form
EditSubmitData(action) ==
    /\ editor.pc = "open"
    /\ events' = updateEvent(events, editor.eventId, editor.maxSeats, editor.remainingSeats,
                             editor.cutoffHours, editor.allowedRegistrants)
    /\ baseline' = [baseline EXCEPT ![editor.eventId] = -1]
    /\ editor' = [editor EXCEPT !.pc = "status", !.action = action]
    /\ UNCHANGED <<registrations, now, reqs, creating, zone, children, accountState>>

\* edit-event-modal.tsx updateEventMutation, publish or save: the second request,
\* PUT /api/admin/events/:id/status, after which the modal closes
EditSubmitStatus ==
    /\ editor.pc = "status"
    /\ events' = updateEventStatus(events, editor.eventId, newStatus(editor.action))
    /\ editor' = ClosedEditor
    /\ UNCHANGED <<registrations, now, reqs, creating, baseline, zone, children, accountState>>

\* the second request fails: onError shows a toast and the modal stays open
EditSubmitStatusFails ==
    /\ editor.pc = "status"
    /\ editor' = [editor EXCEPT !.pc = "open", !.action = None]
    /\ UNCHANGED <<events, registrations, now, reqs, creating, baseline, zone, children, accountState>>

\* edit-event-modal.tsx updateEventMutation, delete: DELETE /api/admin/events/:id
\* alone, after which the modal closes
EditDelete ==
    /\ editor.pc = "open"
    /\ events' = [events EXCEPT ![editor.eventId].deleted = TRUE]
    /\ editor' = ClosedEditor
    /\ UNCHANGED <<registrations, now, reqs, creating, baseline, zone, children, accountState>>

\* the modal is closed without a request
EditClose ==
    /\ editor.pc = "open"
    /\ editor' = ClosedEditor
    /\ UNCHANGED <<events, registrations, now, reqs, creating, baseline, zone, children, accountState>>

\* PUT /api/children/:id by the child's parent with a parentId in the body:
\* storage.updateChild sets the fields of the body, parentId among them
updateChild(c, userId, parentId) ==
    /\ children[c] = userId
    /\ children' = [children EXCEPT ![c] = parentId]
    /\ UNCHANGED <<events, registrations, now, reqs, creating, baseline, zone, editor, accountState>>

\* isUserProfileComplete with the phone number left out of the test
isUserProfileComplete_m(user) ==
    /\ user.exists
    /\ user.firstName \notin {None, ""}
    /\ user.lastName \notin {None, ""}
    /\ user.email \notin {None, ""}

\* isUserProfileComplete: the row exists and the four fields are truthy, that is
\* neither null nor the empty string
isUserProfileComplete(user) ==
    /\ user.exists
    /\ user.firstName \notin {None, ""}
    /\ user.lastName \notin {None, ""}
    /\ user.email \notin {None, ""}
    /\ user.phone \notin {None, ""}

\* the values PUT /api/profile gives to a field of the profile
ProfileValues == {None, "", "5550100000"}

\* PUT /api/profile: storage.updateUser sets the fields of the body on the row of
\* the signed-in user, updateUserSchema asking nothing of their content
UpdateProfile(u, firstName, phone) ==
    /\ users[u].exists
    /\ users' = [users EXCEPT ![u].firstName = firstName, ![u].phone = phone]
    /\ UNCHANGED <<eventState, children, roleRes, childReq, signups, watcher, probe>>

\* POST /api/children arrives for the signed-in user, the session of an OAuth
\* user and of an email user both naming the row of the users table
ChildArrive(u, bodyValid) ==
    /\ childReq.pc \in {"idle", "done"}
    /\ \E c \in NewChildIds : children[c] = None
    /\ childReq' = [pc |-> "getUser", userId |-> u, bodyValid |-> bodyValid, result |-> None]
    /\ UNCHANGED <<eventState, children, users, roleRes, signups, watcher, probe>>

\* storage.getUserByReplitId or storage.getUser answers, then the test of the
\* profile and insertChildSchema.parse of the body
ChildCheckProfile ==
    /\ childReq.pc = "getUser"
    /\ childReq' = IF ~isUserProfileComplete(users[childReq.userId])
                   THEN [childReq EXCEPT !.pc = "done", !.result = "400 Complete your profile"]
                   ELSE IF ~childReq.bodyValid
                   THEN [childReq EXCEPT !.pc = "done", !.result = "400 Invalid child data"]
                   ELSE [childReq EXCEPT !.pc = "create"]
    /\ UNCHANGED <<eventState, children, users, roleRes, signups, watcher, probe>>

\* storage.createChild inserts the row with parentId the signed-in user
ChildCreate ==
    /\ childReq.pc = "create"
    /\ \E c \in NewChildIds :
          /\ children[c] = None
          /\ children' = [children EXCEPT ![c] = childReq.userId]
    /\ childReq' = [childReq EXCEPT !.pc = "done", !.result = "201"]
    /\ UNCHANGED <<eventState, users, roleRes, signups, watcher, probe>>

\* a storage call of POST /api/children throws
ChildStorageFailure ==
    /\ childReq.pc \in {"getUser", "create"}
    /\ childReq' = [childReq EXCEPT !.pc = "done", !.result = "500"]
    /\ UNCHANGED <<eventState, children, users, roleRes, signups, watcher, probe>>

\* the roles the PATCH of a user's role lets through its first test
KnownRoles == {"admin", "staff", "user", "attendee"}

\* the roles of the bodies sent to the PATCH
BodyRoles == KnownRoles \cup {"owner"}

\* storage.updateUserRole: the role of the row, whatever its role was
updateUserRole(usrs, userId, role) == [usrs EXCEPT ![userId].role = role]

\* PATCH /api/admin/users/:userId/role behind isAdmin
RoleUpdate(actor, userId, role) ==
    /\ roleRes' = IF users[actor].role # "admin" THEN "403 Admin access required"
                  ELSE IF role \notin KnownRoles THEN "400 Invalid role"
                  ELSE IF role = "admin" THEN "403 Cannot assign admin role"
                  ELSE IF ~users[userId].exists THEN "404 User not found"
                  ELSE "200"
    /\ users' = IF roleRes' = "200" THEN updateUserRole(users, userId, role) ELSE users
    /\ UNCHANGED <<eventState, children, childReq, signups, watcher, probe>>

\* storage.updateUserRole throws
RoleStorageFailure ==
    /\ roleRes # "500"
    /\ roleRes' = "500"
    /\ UNCHANGED <<eventState, children, users, childReq, signups, watcher, probe>>

\* the last second of the watcher's clock
MaxClock == DebounceSeconds + MaxTime + 1

\* runTests: nothing while a run is in progress or less than two seconds after
\* the last run started, else exec of jest
runTests(w) ==
    IF w.isRunning \/ w.clock - w.lastRunTime < DebounceSeconds
    THEN w
    ELSE [w EXCEPT !.isRunning = TRUE, !.lastRunTime = w.clock, !.runs = @ + 1,
                   !.dirty = FALSE]

\* watcher.on('ready'): the run at startup
WatchReady ==
    /\ ~watcher.ready
    /\ watcher' = runTests([watcher EXCEPT !.ready = TRUE])
    /\ UNCHANGED <<eventState, children, users, roleRes, childReq, signups, probe>>

\* watcher.on('change'): the timer is cleared and set anew, one second ahead
WatchChange ==
    /\ watcher.ready
    /\ watcher.clock + TimerSeconds <= MaxClock
    /\ watcher' = [watcher EXCEPT !.pending = TRUE, !.timeout = watcher.clock + TimerSeconds,
                                  !.dirty = TRUE]
    /\ UNCHANGED <<eventState, children, users, roleRes, childReq, signups, probe>>

\* the timer of the last change fires and calls runTests
WatchTimer ==
    /\ watcher.pending
    /\ watcher.clock >= watcher.timeout
    /\ watcher' = runTests([watcher EXCEPT !.pending = FALSE, !.timeout = 0])
    /\ UNCHANGED <<eventState, children, users, roleRes, childReq, signups, probe>>

\* the callback of exec: the jest process has ended
WatchRunEnds ==
    /\ watcher.runs > 0
    /\ watcher' = [watcher EXCEPT !.isRunning = FALSE, !.runs = @ - 1]
    /\ UNCHANGED <<eventState, children, users, roleRes, childReq, signups, probe>>

\* a second passes, a timer that is due firing first
WatchTick ==
    /\ watcher.clock < MaxClock
    /\ watcher.pending => watcher.clock < watcher.timeout
    /\ watcher' = [watcher EXCEPT !.clock = @ + 1]
    /\ UNCHANGED <<eventState, children, users, roleRes, childReq, signups, probe>>

\* checkDatabase: SELECT 1, a failure caught and returned as unhealthy
checkDatabase(p) == IF p.databaseUp THEN "healthy" ELSE "unhealthy"

\* checkMemory: healthy below 90 percent of the heap
checkMemory(p) == IF p.heapPercent < MemoryLimit THEN "healthy" ELSE "unhealthy"

\* checkDiskSpace
checkDiskSpace(p) == "healthy"

\* healthCheck: the three checks, and healthy overall when every one is
healthCheck(p) ==
    LET checks == <<checkDatabase(p), checkMemory(p), checkDiskSpace(p)>>
    IN  [status |-> IF \A i \in 1..Len(checks) : checks[i] = "healthy"
                    THEN "healthy" ELSE "unhealthy",
         checks |-> checks]

\* the database goes down or comes back
DatabaseChange(up) ==
    /\ probe.databaseUp # up
    /\ probe' = [probe EXCEPT !.databaseUp = up]
    /\ UNCHANGED <<eventState, children, users, roleRes, childReq, signups, watcher>>

\* the share of the heap in use changes
MemoryChange(percent) ==
    /\ probe.heapPercent # percent
    /\ probe' = [probe EXCEPT !.heapPercent = percent]
    /\ UNCHANGED <<eventState, children, users, roleRes, childReq, signups, watcher>>

\* healthHandler: 200 when healthCheck is healthy, else 503
healthHandler ==
    /\ LET health == healthCheck(probe)
       IN  probe' = [probe EXCEPT !.health =
                        [code |-> IF health.status = "healthy" THEN 200 ELSE 503,
                         checks |-> health.checks]]
    /\ UNCHANGED <<eventState, children, users, roleRes, childReq, signups, watcher>>

\* readinessHandler: checkDatabase is awaited and its result dropped; it never
\* throws, so the catch with the 503 is never entered
readinessHandler ==
    /\ checkDatabase(probe) \in {"healthy", "unhealthy"}
    /\ probe' = [probe EXCEPT !.readiness = "200 ready"]
    /\ UNCHANGED <<eventState, children, users, roleRes, childReq, signups, watcher>>

\* storage.getUserByEmail: is there a row with the email, compared as stored
getUserByEmail(usrs, email) == \E u \in AllUserIds : usrs[u].exists /\ usrs[u].email = email

\* the row of a new email account
NewUser(email) == [exists |-> TRUE, role |-> "user", firstName |-> "First",
                   lastName |-> "Last", email |-> email, phone |-> "5550100000"]

\* createUser on a users table without the unique constraint on email
createUser_m(usrs, id, email) == [usrs EXCEPT ![id] = NewUser(email)]

\* storage.createUser: the insert, which the unique constraint on users.email
\* makes throw, the table as it was, when a row has the email
createUser(usrs, id, email) ==
    IF getUserByEmail(usrs, email) THEN usrs ELSE [usrs EXCEPT ![id] = NewUser(email)]

\* POST /api/auth/signup arrives with a valid body
SignupArrive(r, email) ==
    /\ signups[r].pc = "idle"
    /\ \A q \in ReqIds : q < r => signups[q].pc # "idle"
    /\ signups' = [signups EXCEPT ![r] = [pc |-> "getUserByEmail", email |-> email,
                                          result |-> None]]
    /\ UNCHANGED <<eventState, children, users, roleRes, childReq, watcher, probe>>

\* storage.getUserByEmail answers: 400 when the email has a user, else on to
\* hashPassword
SignupCheck(r) ==
    /\ signups[r].pc = "getUserByEmail"
    /\ signups' = [signups EXCEPT ![r] =
                      IF getUserByEmail(users, @.email)
                      THEN [@ EXCEPT !.pc = "done",
                                     !.result = "400 User with this email already exists"]
                      ELSE [@ EXCEPT !.pc = "createUser"]]
    /\ UNCHANGED <<eventState, children, users, roleRes, childReq, watcher, probe>>

\* storage.createUser after hashPassword, then req.login: 201, or 500 with the
\* user created when the login fails, or the 500 of the catch when the insert throws
SignupCreate(r, loggedIn) ==
    /\ signups[r].pc = "createUser"
    /\ users' = createUser(users, SignupIds[r], signups[r].email)
    /\ signups' = [signups EXCEPT ![r] =
                      [@ EXCEPT !.pc = "done",
                                !.result = IF ~users'[SignupIds[r]].exists
                                           THEN "500 Failed to create account"
                                           ELSE IF loggedIn THEN "201"
                                           ELSE "500 Failed to log in after signup"]]
    /\ UNCHANGED <<eventState, children, roleRes, childReq, watcher, probe>>

\* a storage call of the signup, or hashPassword, throws
SignupStorageFailure(r) ==
    /\ signups[r].pc \in {"getUserByEmail", "createUser"}
    /\ signups' = [signups EXCEPT ![r] = [@ EXCEPT !.pc = "done",
                                                   !.result = "500 Failed to create account"]]
    /\ UNCHANGED <<eventState, children, users, roleRes, childReq, watcher, probe>>

\* PUT /api/profile with an email in the body: storage.updateUser, which throws
\* on the unique constraint when another row has the email
UpdateEmail(u, email) ==
    /\ users[u].exists
    /\ users' = IF \E v \in AllUserIds \ {u} : users[v].exists /\ users[v].email = email
                THEN users
                ELSE [users EXCEPT ![u].email = email]
    /\ users' # users
    /\ UNCHANGED <<eventState, children, roleRes, childReq, signups, watcher, probe>>

\* one hour passes
Tick ==
    /\ now < MaxTime
    /\ now' = now + 1
    /\ UNCHANGED <<events, registrations, reqs, creating, baseline, zone, children, editor, accountState>>

\* the steps of the register requests that have arrived
RegisterSteps ==
    \/ \E r \in ReqIds : RegisterCheckRegistered(r)
    \/ \E r \in ReqIds : RegisterGetChild(r)
    \/ \E r \in ReqIds : RegisterCreate(r)
    \/ \E r \in ReqIds : RegisterUpdateSeats(r)
    \/ \E r \in ReqIds : RegisterStorageFailure(r)

\* the register requests
RegisterNext ==
    \/ \E r \in ReqIds, u \in UserIds, e \in EventIds, c \in ChildIds \cup {None} :
          RegisterGetEvent(r, u, e, c)
    \/ RegisterSteps

\* concurrent register requests against the seeded event as time passes
Next ==
    \/ RegisterNext
    \/ Tick

Spec == Init /\ [][Next]_vars

\* a server in any of the zones, the seeded event with a cutoff of up to as many
\* hours as lie between server start and the event
InitZone == InitWith(ZoneChoices, 0..SeedStartHours, {SeedExtraServices})

\* the register requests on a server whose local clock may change
SpecZone == InitZone /\ [][Next]_vars

\* the seeded event with one of the lists of extra services, open until it starts
InitCost == InitWith({NoShift}, {0}, ServiceChoices)

\* the requests of one parent, for the parent or the child, with extra services
CostNext ==
    \/ \E r \in ReqIds, c \in {None, "c1"}, sel \in SelectionChoices :
          RegisterGetEventWith(r, "u1", "e1", c, sel)
    \/ RegisterSteps

SpecCost == InitCost /\ [][CostNext]_vars

\* the same, with the admin hiding and restoring the event meanwhile
DeleteNext ==
    \/ RegisterNext
    \/ \E e \in EventIds : softDeleteEvent(e)
    \/ \E e \in EventIds : restoreEvent(e)
    \/ Tick

SpecDelete == Init /\ [][DeleteNext]_vars

\* the register requests while the admin rewrites the event through the update
\* endpoint
EditNext ==
    \/ RegisterNext
    \/ \E e \in EventIds, rs \in 0..MaxSeats, ch \in CutoffChoices, ar \in StoredRegistrants :
          AdminUpdateEvent(e, MaxSeats, rs, ch, ar)
    \/ Tick

SpecEdit == Init /\ [][EditNext]_vars

\* the register requests, also for a child that does not exist, while parents
\* hand their children over to other accounts
ChildNext ==
    \/ RegisterNext
    \/ \E r \in ReqIds, u \in UserIds, e \in EventIds : RegisterGetEvent(r, u, e, MissingChild)
    \/ \E c \in ChildIds, u \in UserIds, p \in UserIds : updateChild(c, u, p)
    \/ Tick

SpecChild == Init /\ [][ChildNext]_vars

\* the administrative operations on the existing events, no registration running
StatusNext ==
    \/ \E e \in EventIds, ms \in 1..MaxSeats, rs \in 0..MaxSeats,
          ch \in EditCutoffChoices, ar \in AllowedRegistrants :
          AdminUpdateEvent(e, ms, rs, ch, ar)
    \/ \E e \in EventIds, s \in EventStatus : AdminUpdateEventStatus(e, s)
    \/ \E e \in EventIds : softDeleteEvent(e)
    \/ \E e \in EventIds : restoreEvent(e)
    \/ Tick

SpecStatus == Init /\ [][StatusNext]_vars

\* the requests of one parent while the admin edits the event in the modal
\* without touching the seat fields of the form
OverlapNext ==
    \/ \E r \in ReqIds, c \in {None, "c1"} : RegisterGetEvent(r, "u1", "e1", c)
    \/ RegisterSteps
    \/ \E e \in EventIds : handleEditEvent(e)
    \/ \E action \in {"publish", "save"} : EditSubmitData(action)
    \/ EditSubmitStatus
    \/ EditSubmitStatusFails
    \/ EditClose

SpecOverlap == Init /\ [][OverlapNext]_vars

\* the children a parent adds while the profile is edited
AddChildNext ==
    \/ \E u \in {"u1", "s1"}, bodyValid \in BOOLEAN : ChildArrive(u, bodyValid)
    \/ ChildCheckProfile
    \/ ChildCreate
    \/ ChildStorageFailure
    \/ \E firstName \in {None, "", "First"}, phone \in ProfileValues :
          UpdateProfile("u1", firstName, phone)

SpecAddChild == Init /\ [][AddChildNext]_vars

\* the signups, and a user changing the email of the profile meanwhile
SignupNext ==
    \/ \E r \in ReqIds, email \in SignupEmails : SignupArrive(r, email)
    \/ \E r \in ReqIds : SignupCheck(r)
    \/ \E r \in ReqIds, loggedIn \in BOOLEAN : SignupCreate(r, loggedIn)
    \/ \E r \in ReqIds : SignupStorageFailure(r)
    \/ \E email \in SignupEmails \cup {"u1"} : UpdateEmail("u1", email)

SpecSignup == Init /\ [][SignupNext]_vars

\* the probes of the health endpoints
ProbeNext ==
    \/ \E up \in BOOLEAN : DatabaseChange(up)
    \/ \E percent \in {10, 50, 89, 90, 91, 99} : MemoryChange(percent)
    \/ healthHandler
    \/ readinessHandler

SpecProbe == Init /\ [][ProbeNext]_vars

\* the test watcher
WatchNext ==
    \/ WatchReady
    \/ WatchChange
    \/ WatchTimer
    \/ WatchRunEnds
    \/ WatchTick

SpecWatch == Init /\ [][WatchNext]_vars

\* the role updates
RoleNext ==
    \/ \E actor \in UserIds, userId \in AllUserIds, role \in BodyRoles :
          RoleUpdate(actor, userId, role)
    \/ RoleStorageFailure
    \/ Tick

SpecRole == Init /\ [][RoleNext]_vars

\* status updates with any text as the status of the body
StatusBodyNext ==
    \/ \E e \in EventIds, st \in StoredStatus : AdminUpdateEventStatus(e, st)
    \/ Tick

SpecStatusBody == Init /\ [][StatusBodyNext]_vars

\* the admin's edit workflow on the events, with status updates sent past the
\* modal and restores of deleted events
WorkflowNext ==
    \/ \E e \in EventIds : handleEditEvent(e)
    \/ \E ms \in 1..MaxSeats, rs \in 0..MaxSeats : EditForm(ms, rs)
    \/ \E action \in {"publish", "save"} : EditSubmitData(action)
    \/ EditSubmitStatus
    \/ EditSubmitStatusFails
    \/ EditDelete
    \/ EditClose
    \/ \E e \in EventIds, st \in EventStatus : AdminUpdateEventStatus(e, st)
    \/ \E e \in EventIds : restoreEvent(e)
    \/ Tick

SpecWorkflow == Init /\ [][WorkflowNext]_vars

\* event creation with the admin's auto-registration, and the hiding and
\* restoring of events
CreateNext ==
    \/ \E e \in EventIds, ms \in 1..MaxSeats, rs \in 0..MaxSeats,
          ch \in CutoffChoices, ar \in AllowedRegistrants, ss \in BOOLEAN :
          AdminCreateEvent(e, ms, rs, ch, ar, ss)
    \/ AdminAutoRegister
    \/ AdminAutoRegisterFails
    \/ \E e \in EventIds : softDeleteEvent(e)
    \/ \E e \in EventIds : restoreEvent(e)
    \/ Tick

SpecCreate == Init /\ [][CreateNext]_vars

TypeOK ==
    /\ now \in 0..MaxTime
    /\ creating \in EventIds \cup {None}

\* ---------------------------------------------------------------- claims

\* C1: the accepted seat-consuming registrations of an event never outnumber the
\* seats that remained before the requests started (no overbooking), as long as
\* no admin edit rewrote the counter.
C1_NoOverbooking ==
    \A e \in EventIds :
        baseline[e] >= 0 =>
            Cardinality({reg \in registrations :
                            /\ reg.eventId = e
                            /\ reg.id \in ReqIds
                            /\ reqs[reg.id].result = "201"
                            /\ (reg.childId # None
                                \/ userRole[reg.parentId] \notin {"admin", "staff"})})
                <= baseline[e]

\* C2: every event has 0 <= remainingSeats <= maxSeats in every reachable state.
C2_SeatsWithinBounds ==
    \A e \in EventIds :
        events[e].exists =>
            /\ 0 <= events[e].remainingSeats
            /\ events[e].remainingSeats <= events[e].maxSeats

\* C3: at most one registration row exists for an (event, child) pair.
C3_NoDoubleBooking ==
    \A x, y \in registrations :
        (x.childId # None /\ x.eventId = y.eventId /\ x.childId = y.childId) => x = y

\* C4: at most one parent-self registration row (childId = null) exists for an
\* (event, parent) pair.
C4_NoDoubleParentBooking ==
    \A x, y \in registrations :
        (x.childId = None /\ y.childId = None /\ x.eventId = y.eventId
            /\ x.parentId = y.parentId) => x = y

\* C5: once a registration request has ended, the row it inserted needs a seat
\* decrement exactly if that decrement was applied: insert and decrement are
\* applied together or not at all.
C5_InsertAndDecrementTogether ==
    \A r \in ReqIds :
        reqs[r].pc = "done" =>
            ((\E reg \in registrations :
                 /\ reg.id = r
                 /\ (reg.childId # None
                     \/ userRole[reg.parentId] \notin {"admin", "staff"}))
             <=> reqs[r].seatApplied)

C7_DeletedEventNotFound ==
    [][\A r \in ReqIds, u \in UserIds, e \in EventIds, c \in ChildIds \cup {None} :
          (RegisterGetEvent(r, u, e, c) /\ events[e].exists /\ events[e].deleted) =>
              reqs'[r].result = "404 Event not found"
      ]_vars

\* C8: an accepted registration changes remainingSeats by exactly -1 for a child
\* and for a parent-self registration of a role other than admin or staff, and by
\* exactly 0 for the parent-self registration of an admin or staff user.
C8_SeatDelta ==
    [][\A r \in ReqIds :
          (reqs[r].pc # "done" /\ reqs'[r].result = "201") =>
              LET q == reqs[r]
                  delta == events'[q.eventId].remainingSeats
                              - events[q.eventId].remainingSeats
              IN  IF q.childId # None THEN delta = -1
                  ELSE IF userRole[q.userId] \in {"admin", "staff"} THEN delta = 0
                  ELSE delta = -1
      ]_vars

\* an accepted registration that took a seat next to an accepted one that did not
C8_Witness ==
    /\ \E r \in ReqIds : reqs[r].result = "201" /\ reqs[r].seatApplied
    /\ \E r \in ReqIds : reqs[r].result = "201" /\ ~reqs[r].seatApplied

\* C9: the status derived for an event whose stored status is editing is editing,
\* at every time, cutoff and seat count.
C9_EditingOverride ==
    \A e \in EventIds :
        (events[e].exists /\ events[e].status = "editing") =>
            \A row \in getAllEvents(TRUE) : row.id = e => row.status = "editing"

\* C10 as stated: an event not marked as being edited derives past whenever
\* current time >= start time.
C10_PastFromStart ==
    \A e \in EventIds :
        (events[e].exists /\ events[e].status # "editing" /\ now >= events[e].startTime) =>
            calculateEventStatus(events[e], now) = "past"

\* C10 amended: an event not marked as being edited derives past whenever
\* current time > start time; at current time = start time it is not past.
C10_PastAfterStart ==
    \A e \in EventIds :
        (events[e].exists /\ events[e].status # "editing") =>
            /\ now > events[e].startTime => calculateEventStatus(events[e], now) = "past"
            /\ now = events[e].startTime => calculateEventStatus(events[e], now) # "past"

\* a full event after its start, not marked as being edited
C10_Witness ==
    \E e \in EventIds :
        /\ events[e].exists /\ events[e].status # "editing"
        /\ now > events[e].startTime
        /\ events[e].remainingSeats <= 0

\* C11: an event that is neither being edited nor past derives full whenever
\* remainingSeats <= 0, before the cutoff as well as after it.
C11_FullBeforeClosed ==
    \A e \in EventIds :
        (/\ events[e].exists /\ events[e].status # "editing"
         /\ now <= events[e].startTime
         /\ events[e].remainingSeats <= 0) =>
            calculateEventStatus(events[e], now) = "full"

\* an event without seats after its cutoff and before its start
C11_Witness ==
    \E e \in EventIds :
        /\ events[e].exists /\ events[e].status # "editing"
        /\ events[e].remainingSeats <= 0
        /\ events[e].cutoffHours > 0
        /\ now > 0
        /\ now > events[e].startTime - events[e].cutoffHours
        /\ now < events[e].startTime

\* C12: an event that is not being edited, not past and has remainingSeats > 0
\* derives registration_closed exactly when current time > start time - cutoff
\* hours, and open otherwise; with cutoff hours 0 it is open at every instant
\* before the start time.
C12_ClosedAfterCutoff ==
    \A e \in EventIds :
        (/\ events[e].exists /\ events[e].status # "editing"
         /\ now <= events[e].startTime
         /\ events[e].remainingSeats > 0) =>
            /\ calculateEventStatus(events[e], now) =
                  IF now > events[e].startTime - events[e].cutoffHours
                  THEN "registration_closed" ELSE "open"
            /\ (events[e].cutoffHours = 0 /\ now < events[e].startTime) =>
                  calculateEventStatus(events[e], now) = "open"

\* an event with seats at the very instant of its cutoff, which lies after the
\* server start and before the event
C12_Witness ==
    \E e \in EventIds :
        /\ events[e].exists /\ events[e].status # "editing"
        /\ events[e].remainingSeats > 0
        /\ events[e].cutoffHours > 0
        /\ now > 0
        /\ now = events[e].startTime - events[e].cutoffHours

\* C13: a registration request for an existing event with remainingSeats > 0
\* passes the time check exactly when now <= start time - cutoff hours; when now
\* is later it is answered RegistrationClosed, and rows and seats stay as they
\* were, whatever the registrant type.
C13_TimeCheck ==
    [][\A r \in ReqIds :
          (reqs[r].pc = "idle" /\ reqs'[r].pc # "idle") =>
          \A u \in UserIds, e \in EventIds, c \in ChildIds \cup {None} :
          (RegisterGetEvent(r, u, e, c) /\ events[e].exists
              /\ events[e].remainingSeats > 0) =>
              IF now > events[e].startTime - events[e].cutoffHours
              THEN /\ reqs'[r].result = "400 Registration deadline has passed"
                   /\ registrations' = registrations
                   /\ events' = events
              ELSE reqs'[r].result # "400 Registration deadline has passed"
      ]_vars

\* C14: a child registration is admitted only if the event's allowed-registrants
\* mode is attendee or both, a parent-self registration only if it is user or
\* both; under every other mode the request is answered RegistrantTypeNotAllowed
\* and changes nothing.
C14_RegistrantType ==
    [][\A r \in ReqIds :
          (reqs[r].pc = "idle" /\ reqs'[r].pc # "idle") =>
          \A u \in UserIds, e \in EventIds, c \in ChildIds \cup {None} :
          (RegisterGetEvent(r, u, e, c) /\ events[e].exists
              /\ events[e].remainingSeats > 0
              /\ now <= events[e].startTime - events[e].cutoffHours) =>
              LET mode == events[e].allowedRegistrants
                  allowed == IF c # None THEN mode \in {"attendee", "both"}
                             ELSE mode \in {"user", "both"}
              IN  IF allowed THEN reqs'[r].result = None
                  ELSE /\ reqs'[r].result \in {"400 only open to children",
                                                "400 only open to parents"}
                       /\ registrations' = registrations
                       /\ events' = events
      ]_vars

\* C15: a request that names a child who does not exist or whose parent is not
\* the requesting user is answered NotFound by the ownership check, and every
\* registration row with a child is inserted while that child's parentId is the
\* row's parentId.
C15_ChildOwnedWhenCreated ==
    [][\A r \in ReqIds :
          LET q == reqs[r]
              notOwned == q.childId \notin ChildIds \/ children[q.childId] # q.userId
          IN  /\ (RegisterGetChild(r) /\ notOwned) =>
                    reqs'[r].result = "404 Child not found"
              /\ (RegisterCreate(r) /\ q.childId # None) => ~notOwned
      ]_vars

\* C16 as stated: the row of an accepted registration stores the event's
\* creditsRequired as creditsCost and, as servicesCost, the sum of the prices of
\* the selected services that exist, a selected index without a service adding 0.
\* A price is counted in thousandths and servicesCost is stored in hundredths.
C16_CostIsSumOfPrices ==
    [][\A r \in ReqIds :
          RegisterCreate(r) =>
              LET q == reqs[r]
                  price(i) == IF i <= Len(q.selectedServices)
                                 /\ q.selectedServices[i] + 1 \in DOMAIN events[q.eventId].extraServices
                              THEN events[q.eventId].extraServices[q.selectedServices[i] + 1]
                              ELSE 0
              IN  \A reg \in registrations' \ registrations :
                      /\ reg.creditsCost = events[q.eventId].creditsRequired
                      /\ reg.servicesCost * 10 = price(1) + price(2)
      ]_vars

\* C16 amended: creditsCost is the event's creditsRequired, and servicesCost is
\* the sum, over the selected indices that name a service, each as often as it is
\* listed, of the service's price rounded to the nearest cent, in cents (1500 for
\* the prices 10.00 and 5.00); a selected index without a service adds 0 and the
\* request is not rejected for it.
C16_CostInCents ==
    [][\A r \in ReqIds :
          RegisterCreate(r) =>
              LET q == reqs[r]
                  nearestCent(p) == CHOOSE c \in {p \div 10, p \div 10 + 1} :
                                        10 * c - 5 <= p /\ p < 10 * c + 5
                  cents(i) == IF i <= Len(q.selectedServices)
                                 /\ q.selectedServices[i] + 1 \in DOMAIN events[q.eventId].extraServices
                              THEN nearestCent(events[q.eventId].extraServices[q.selectedServices[i] + 1])
                              ELSE 0
              IN  /\ registrations' # registrations
                  /\ \A reg \in registrations' \ registrations :
                        /\ reg.creditsCost = events[q.eventId].creditsRequired
                        /\ reg.servicesCost = cents(1) + cents(2)
      ]_vars

\* accepted registrations that store 15.00 as 1500, one service of 5.00 beside an
\* index without a service as 500, and a service of 1.006 as 101
C16_Witness ==
    \E x, y \in registrations :
        /\ x.servicesCost \in {1500, 1101}
        /\ y.servicesCost \in {500, 101}
        /\ x.id \in ReqIds /\ reqs[x.id].result = "201"
        /\ y.id \in ReqIds /\ reqs[y.id].result = "201"

\* C17: an event whose stored status is editing, set by the admin who began an
\* edit or saved it for later, is not in the listing of GET /api/events, at every
\* time and seat count.
C17_EditingNotListed ==
    \A e \in EventIds :
        (events[e].exists /\ events[e].status = "editing") =>
            ~\E event \in getEventsForUser : event.id = e

C19_EditWorkflow ==
    [][LET e == IF editor.pc = "closed" THEN editor'.eventId ELSE editor.eventId
       IN  /\ (editor.pc = "closed" /\ editor'.pc = "open") =>
                 events'[e].status = "editing"
           /\ (editor.pc = "open" /\ editor'.pc = "status") =>
                 events'[e].status = events[e].status
           /\ (editor.pc = "status" /\ editor'.pc = "closed" /\ editor.action = "publish") =>
                 events'[e].status = "open"
           /\ (editor.pc = "status" /\ editor'.pc = "closed" /\ editor.action = "save") =>
                 events'[e].status = "editing"
           /\ (editor.pc = "open" /\ editor'.pc = "closed" /\ events' # events) =>
                 events' = [events EXCEPT ![e].deleted = TRUE]
      ]_vars

\* an event whose data an edit action rewrote, stored as open once the modal has
\* closed, after its start
C19_Witness ==
    \E e \in EventIds :
        /\ events[e].exists /\ events[e].status = "open"
        /\ baseline[e] = -1
        /\ editor.pc = "closed"
        /\ now > events[e].startTime

\* C20: a soft delete changes only the deleted flag of the event: its status,
\* remainingSeats, maxSeats and every registration stay as they were, and the
\* event leaves the listings of the non-deleted events; a restore clears only
\* that flag, so the event is stored as before the delete and is listed with its
\* calculated status again.
C20_DeleteRestoreFrame ==
    [][\A e \in EventIds :
          (events[e].exists /\ events'[e].exists
              /\ events'[e].deleted # events[e].deleted) =>
              /\ registrations' = registrations
              /\ events' = [events EXCEPT ![e].deleted = ~events[e].deleted]
              /\ events'[e].deleted => ~\E event \in getAllEvents(FALSE)' : event.id = e
              /\ ~events'[e].deleted =>
                    \E event \in getAllEvents(FALSE)' :
                        /\ event.id = e
                        /\ event.status = calculateEventStatus(events[e], now)
      ]_vars

\* a soft-deleted event that has the registration of its creator and fewer seats
\* left than it has seats
C20_Witness ==
    \E e \in EventIds :
        /\ events[e].exists /\ events[e].deleted
        /\ events[e].remainingSeats < events[e].maxSeats
        /\ \E reg \in registrations : reg.eventId = e

\* C21: a status update with a status outside open, registration_closed, full,
\* past and editing is rejected and the stored status stays as it was, so every
\* status a step stores is one of the five; a status update or an edit of an
\* event id without a row changes no event.
C21_StatusClosedSet ==
    [][\A e \in EventIds :
          /\ events'[e].status # events[e].status => events'[e].status \in EventStatus
          /\ ~events[e].exists => events'[e] = events[e]
      ]_vars

\* C22: remainingSeats of an event changes only by the delta of an accepted
\* registration, one seat down in the step that applies it; no other step writes
\* a value it has read earlier, so an admin edit that overlaps a registration does
\* not overwrite that registration's decrement.
C22_SeatsOnlyByDelta ==
    [][\A e \in EventIds :
          events'[e].remainingSeats # events[e].remainingSeats =>
              /\ events'[e].remainingSeats = events[e].remainingSeats - 1
              /\ \E r \in ReqIds :
                    /\ reqs[r].pc = "updateSeats" /\ reqs[r].eventId = e
                    /\ reqs'[r].result = "201"
      ]_vars

\* C23: POST /api/children inserts a child only for a request that found the
\* stored profile of its user complete, first name, last name, email and phone
\* all non-empty, and the inserted row has that user as parent; a request that
\* finds the profile incomplete is answered 400 and inserts nothing.
C23_ChildNeedsProfile ==
    [][LET q == childReq
           user == users[q.userId]
           complete == /\ user.exists
                       /\ user.firstName \notin {None, ""}
                       /\ user.lastName \notin {None, ""}
                       /\ user.email \notin {None, ""}
                       /\ user.phone \notin {None, ""}
       IN  /\ (q.pc = "getUser" /\ childReq' # q /\ childReq'.result # "500") =>
                 /\ complete <=> childReq'.result # "400 Complete your profile"
                 /\ childReq'.pc = "create" => complete
                 /\ children' = children
           /\ children' # children =>
                 /\ q.pc = "create" /\ childReq'.result = "201"
                 /\ \E c \in NewChildIds :
                       /\ children[c] = None
                       /\ children' = [children EXCEPT ![c] = q.userId]
      ]_vars

\* a child of u1 was inserted, and a later request of u1 was answered 400 after
\* the profile had lost its phone number
C23_Witness ==
    /\ \E c \in NewChildIds : children[c] = "u1"
    /\ childReq.userId = "u1"
    /\ childReq.result = "400 Complete your profile"
    /\ users["u1"].phone = ""

\* C24: a role update answered 400 or 403 leaves every user as stored; no role
\* update turns a user who is not an admin into an admin; and a role update does
\* not change the role of a user who is an admin.
C24_AdminRolesFixed ==
    [][/\ roleRes' \in {"400 Invalid role", "403 Cannot assign admin role"} =>
             users' = users
       /\ \A u \in AllUserIds :
             /\ users[u].role # "admin" => users'[u].role # "admin"
             /\ users[u].role = "admin" => users'[u].role = "admin"
      ]_vars

\* the parent-self registrations of the admin for an event
adminSelfRows(regs, e) ==
    {reg \in regs : reg.eventId = e /\ reg.parentId = AdminId /\ reg.childId = None}

\* C25: when the creating admin is among the staff of the new event, the handler
\* ends with exactly one parent-self registration of that admin for the event, or
\* with none when the auto-registration failed; the event exists either way and
\* its remainingSeats is the value it was created with.
C25_AutoRegistration ==
    [][creating # None =>
          /\ events'[creating].exists
          /\ events'[creating].remainingSeats = baseline[creating]
          /\ adminSelfRows(registrations, creating) = {}
          /\ creating' = None =>
                \/ /\ Cardinality(adminSelfRows(registrations', creating)) = 1
                   /\ Cardinality(registrations') = Cardinality(registrations) + 1
                \/ registrations' = registrations
      ]_vars

\* the admin created e2 with themselves among the staff and is registered for it
\* while every seat it was created with remains
C25_Witness ==
    /\ creating = None
    /\ events["e2"].exists
    /\ Cardinality(adminSelfRows(registrations, "e2")) = 1
    /\ events["e2"].remainingSeats = baseline["e2"]
    /\ baseline["e2"] > 0

\* C26: never two test runs in progress, and a change that no test run has
\* started after always has its timer pending, the call of runTests that is to
\* start the run that follows the change, also when the change came during a run
\* or less than two seconds after the last run started.
C26_ChangeGetsRun ==
    /\ watcher.runs <= 1
    /\ watcher.dirty => watcher.pending

\* C27: the readiness probe answers 200 ready exactly when the database check
\* succeeds and 503 not ready when it fails; the health endpoint answers 200
\* exactly when the database, memory and disk checks are all healthy, else 503.
C27_ProbesFollowChecks ==
    [][/\ probe'.readiness # probe.readiness =>
             /\ probe'.readiness = "200 ready" <=> probe.databaseUp
             /\ probe'.readiness = "503 not ready" <=> ~probe.databaseUp
       /\ probe'.health # probe.health =>
             /\ probe'.health.code = 200 <=>
                   (probe.databaseUp /\ probe.heapPercent < MemoryLimit)
             /\ probe'.health.code = 503 <=>
                   ~(probe.databaseUp /\ probe.heapPercent < MemoryLimit)
      ]_vars

\* C28: for an event with cutoffHours >= 0, a registration request that passes
\* the admission checks at hour now finds calculateEventStatus of the same row at
\* that hour open, and a request made while calculateEventStatus is full,
\* registration_closed or past is rejected.
C28_AdmissionAgreesWithStatus ==
    [][\A r \in ReqIds :
          (reqs[r].pc = "idle" /\ reqs'[r].pc # "idle") =>
          \A u \in UserIds, e \in EventIds, c \in ChildIds \cup {None} :
          (RegisterGetEvent(r, u, e, c) /\ events[e].exists /\ events[e].cutoffHours >= 0) =>
              LET status == calculateEventStatus(events[e], now)
              IN  /\ reqs'[r].pc = "checkRegistered" => status = "open"
                  /\ status \in {"full", "registration_closed", "past"} =>
                        /\ reqs'[r].pc = "done"
                        /\ reqs'[r].result # "201"
      ]_vars

\* the registrations of an event that consume a seat: those of a child and those
\* of a parent who is neither admin nor staff
seatRows(e) ==
    {reg \in registrations :
        /\ reg.eventId = e
        /\ (reg.childId # None \/ userRole[reg.parentId] \notin {"admin", "staff"})}

\* the requests for an event that have inserted their row and not yet updated the seats
seatUpdatesPending(e) == {r \in ReqIds : reqs[r].pc = "updateSeats" /\ reqs[r].eventId = e}

\* C29: seat conservation. For an event that no admin edit has rewritten, as long
\* as no storage call has failed, the seats it has lost since the start are as
\* many as its registrations that consume a seat, those whose request is still
\* between its insert and its seat update left out.
C29_SeatConservation ==
    (\A r \in ReqIds : reqs[r].result # "500") =>
        \A e \in EventIds :
            (events[e].exists /\ baseline[e] >= 0) =>
                baseline[e] - events[e].remainingSeats
                    = Cardinality(seatRows(e)) - Cardinality(seatUpdatesPending(e))

\* two requests were accepted after both had passed the seat check: the event has
\* lost two seats to two registrations
C29_Witness ==
    /\ \A r \in ReqIds : reqs[r].result = "201" /\ reqs[r].seatApplied
    /\ \E e \in EventIds :
          /\ baseline[e] - events[e].remainingSeats = NumReqs
          /\ Cardinality(seatRows(e)) = NumReqs

\* C30: no two users have the same email, in every state; a signup that finds a
\* user with its email is answered 400 and creates no user; and a signup whose
\* insert meets a user with its email, created meanwhile by another signup, ends
\* in an error and creates no user.
C30_OneUserPerEmail ==
    [][/\ \A u, v \in AllUserIds :
             (users'[u].exists /\ users'[v].exists /\ users'[u].email = users'[v].email)
                 => u = v
       /\ \A r \in ReqIds :
             LET q == signups[r]
                 taken == \E u \in AllUserIds : users[u].exists /\ users[u].email = q.email
             IN  /\ (q.pc = "getUserByEmail" /\ signups'[r] # q /\ taken) =>
                       /\ signups'[r].result \in {"400 User with this email already exists",
                                                  "500 Failed to create account"}
                       /\ users' = users
                 /\ (q.pc = "createUser" /\ signups'[r] # q /\ taken) =>
                       /\ signups'[r].result = "500 Failed to create account"
                       /\ users' = users
      ]_vars

\* two signups with the same new email passed the check together: one created
\* the user, the other ended in the error of the insert
C30_Witness ==
    \E r, q \in ReqIds :
        /\ signups[r].email = signups[q].email
        /\ signups[r].result = "201"
        /\ users[SignupIds[r]].exists
        /\ signups[q].result = "500 Failed to create account"
        /\ ~users[SignupIds[q]].exists

====
